---------------------------- MODULE Spec2Model ----------------------------
(***************************************************************************)
(* Model of the TextArea widget of sql-in-terminal                         *)
(* (src/src/widget/textarea.py): the text buffer, the cursor, the pointer  *)
(* mapping and the blink timer.                                            *)
(*                                                                         *)
(* The buffer `value` is a sequence of one-character strings.  Reactive    *)
(* attributes are written through their validate_* method, as textual's    *)
(* reactive descriptor does.  watch_value is an async watcher: textual     *)
(* runs it right after the handler that changed `value`, before the next   *)
(* event is dispatched, so each action below includes it.                  *)
(***************************************************************************)
EXTENDS Integers, Sequences, FiniteSets

VARIABLES value, cursor_position, cursor_line, view_position,
          cursor_blink, cursor_visible, has_focus, mounted, timer_active,
          crashed, last_event, posted

vars == <<value, cursor_position, cursor_line, view_position,
          cursor_blink, cursor_visible, has_focus, mounted, timer_active,
          crashed, last_event, posted>>

--------------------------------------------------------------------------
(* Bounds of the model *)

\* longest buffer the model builds
MaxLen == 3
\* longest pasted block
MaxPaste == 2
\* largest pointer x coordinate
MaxClickX == 4
\* longest content the owner assigns
MaxSet == 2

--------------------------------------------------------------------------
(* Characters *)

NL == "\n"
\* a character of display width 2 (a CJK glyph)
Wide == "W"
Chars == {"a", Wide, NL}
Printable == Chars \ {NL}

Texts(n) == UNION {[1..k -> Chars] : k \in 0..n}

\* a pasted block may also hold carriage returns
CR == "\r"
PasteChars == Chars \cup {CR}
PasteTexts(n) == UNION {[1..k -> PasteChars] : k \in 0..n}

Min2(a, b) == IF a <= b THEN a ELSE b
Max2(a, b) == IF a >= b THEN a ELSE b

\* rich.cells.get_character_cell_size: 2 for a wide glyph, 0 for a control
\* character such as the newline, 1 otherwise
CellSize(ch) == IF ch = Wide THEN 2 ELSE IF ch = NL THEN 0 ELSE 1

--------------------------------------------------------------------------
(* Python string helpers *)

\* s[:p] and s[p:] for p >= 0 (a slice bound past the end is the end)
Prefix(s, p) == SubSeq(s, 1, Min2(p, Len(s)))
Suffix(s, p) == SubSeq(s, Min2(p, Len(s)) + 1, Len(s))

\* s.count("\n")
CountNL(s) == Cardinality({i \in 1..Len(s) : s[i] = NL})

\* the pieces of s between the occurrences of "\n"
RECURSIVE Pieces(_)
Pieces(s) ==
    IF \A i \in 1..Len(s) : s[i] # NL
    THEN <<s>>
    ELSE LET i == CHOOSE k \in 1..Len(s) :
                      s[k] = NL /\ \A j \in 1..(k - 1) : s[j] # NL
         IN  <<SubSeq(s, 1, i - 1)>> \o Pieces(SubSeq(s, i + 1, Len(s)))

\* the bug of calling s.split() for s.split("\n"): no piece for an empty s
SplitNoSep(s) == IF Len(s) = 0 THEN <<>> ELSE Pieces(s)

\* s.split("\n"): always at least one line
SplitNL(s) == Pieces(s)

\* max(list(map(len, lines))); Python raises ValueError on an empty list
MaxRaises(lines) == Len(lines) = 0
MaxOf(lines) ==
    IF Len(lines) = 0 THEN 0
    ELSE CHOOSE m \in {Len(lines[i]) : i \in 1..Len(lines)} :
             \A i \in 1..Len(lines) : Len(lines[i]) <= m

MaxLineLength(s) == MaxOf(SplitNL(s))

\* the line breaks "\r\n" and "\r" of s written as "\n"
RECURSIVE UnifyBreaks(_)
UnifyBreaks(s) ==
    IF Len(s) = 0 THEN <<>>
    ELSE IF s[1] = CR /\ Len(s) >= 2 /\ s[2] = NL
    THEN <<NL>> \o UnifyBreaks(SubSeq(s, 3, Len(s)))
    ELSE IF s[1] = CR THEN <<NL>> \o UnifyBreaks(Tail(s))
    ELSE <<s[1]>> \o UnifyBreaks(Tail(s))

\* s.splitlines(): the pieces between line breaks ("\n", "\r", "\r\n"),
\* without the empty piece after a final line break
SplitLines(s) ==
    LET parts == Pieces(UnifyBreaks(s))
    IN  IF parts[Len(parts)] = <<>> THEN SubSeq(parts, 1, Len(parts) - 1)
        ELSE parts

\* "\n".join(lines)
RECURSIVE JoinNL(_)
JoinNL(lines) ==
    IF Len(lines) = 0 THEN <<>>
    ELSE IF Len(lines) = 1 THEN lines[1]
    ELSE lines[1] \o <<NL>> \o JoinNL(Tail(lines))

--------------------------------------------------------------------------
(* Validators of the reactive attributes *)

\* the clamp against the whole length instead of the longest line
ClampToLength(v, p) == Min2(Max2(0, p), Len(v))

\* validate_cursor_position
ValidateCursorPosition(v, p) == Min2(Max2(0, p), MaxLineLength(v))
ValidateRaises(v) == MaxRaises(SplitNL(v))

\* validate_cursor_line
ValidateCursorLine(v, l) == Min2(Max2(0, l), CountNL(v) + 2)

--------------------------------------------------------------------------
(* The buffer as a record, and the handlers as functions of it *)

Buf(v, p, l) ==
    [value |-> v, pos |-> p, line |-> l, raised |-> FALSE, posted |-> <<>>]
Cur == Buf(value, cursor_position, cursor_line)

\* self.value = v: the store, then watch_value when the value changed
\* (cursor_line = value.count("\n"), validated; the virtual size takes the
\* max over the lines)
\* the bug of posting the value the watcher replaced
SetValuePostsOld(b, v) ==
    IF v = b.value THEN b
    ELSE [b EXCEPT !.value = v,
                   !.line = ValidateCursorLine(v, CountNL(v)),
                   !.raised = b.raised \/ MaxRaises(SplitNL(v)),
                   !.posted = b.posted \o <<b.value>>]

\* watch_value ends with post_message(Changed(self, value)): `posted` holds
\* the values of the Changed messages the current handler posted
SetValue(b, v) ==
    IF v = b.value THEN b
    ELSE [b EXCEPT !.value = v,
                   !.line = ValidateCursorLine(v, CountNL(v)),
                   !.raised = b.raised \/ MaxRaises(SplitNL(v)),
                   !.posted = IF MaxRaises(SplitNL(v)) THEN b.posted
                              ELSE b.posted \o <<v>>]

\* the bug of a cursor write that also posts a Changed message
SetCursorNotifies(b, p) ==
    [b EXCEPT !.pos = ValidateCursorPosition(b.value, p),
              !.posted = b.posted \o <<b.value>>]

\* self.cursor_position = p
SetCursor(b, p) ==
    IF ValidateRaises(b.value) THEN [b EXCEPT !.raised = TRUE]
    ELSE [b EXCEPT !.pos = ValidateCursorPosition(b.value, p)]

\* self.cursor_line = l
SetLine(b, l) == [b EXCEPT !.line = ValidateCursorLine(b.value, l)]

\* insert_text_at_cursor
InsertTextAtCursor(b, text) ==
    IF b.pos > Len(b.value)
    THEN LET b1 == SetValue(b, b.value \o text)
         IN  SetCursor(b1, Len(b1.value))
    ELSE LET before == Prefix(b.value, b.pos)
             after == Suffix(b.value, b.pos)
             b1 == SetValue(b, before \o text \o after)
         IN  SetCursor(b1, b1.pos + Len(text))

\* action_delete_left
DeleteLeft(b) ==
    IF b.pos <= 0 THEN b
    ELSE IF b.pos = Len(b.value)
    THEN LET b1 == SetValue(b, SubSeq(b.value, 1, Len(b.value) - 1))
         IN  SetCursor(b1, Len(b1.value))
    ELSE LET delete_position == b.pos - 1
             before == Prefix(b.value, delete_position)
             after == Suffix(b.value, delete_position + 1)
             b1 == SetValue(b, before \o after)
         IN  SetCursor(b1, delete_position)

\* the bug of incrementing cursor_line after the insertion
CursorEnterLineLast(b) ==
    LET b1 == InsertTextAtCursor(b, <<NL>>) IN SetLine(b1, b1.line + 1)

\* action_cursor_enter
CursorEnter(b) == InsertTextAtCursor(SetLine(b, b.line + 1), <<NL>>)

\* action_cursor_left, action_cursor_up
CursorLeft(b) == SetCursor(b, b.pos - 1)
CursorUp(b) == SetCursor(b, b.pos - 1)
\* action_cursor_right
CursorRight(b) == SetCursor(b, b.pos + 1)
\* the "down" key is bound to cursor_down, an action the class does not
\* define: textual logs the missing action and changes nothing
CursorDown(b) == b
\* action_home, action_end
Home(b) == SetCursor(b, 0)
End(b) == SetCursor(b, Len(b.value))

\* rich.cells.cell_len, the cells of a string
RECURSIVE CellLen(_)
CellLen(s) == IF Len(s) = 0 THEN 0
              ELSE CellSize(s[1]) + CellLen(Tail(s))

\* the bug of testing cell_offset == click_x for cell_offset >= click_x
ClickIndexEq(v, click_x) ==
    LET hits == {i \in 0..(Len(v) - 1) : CellLen(Prefix(v, i)) = click_x}
    IN  IF hits = {} THEN Len(v)
        ELSE CHOOSE i \in hits : \A j \in hits : i <= j

\* the loop of _on_click: the first index whose cells before it reach
\* click_x, else len(value)
ClickIndex(v, click_x) ==
    LET hits == {i \in 0..(Len(v) - 1) : CellLen(Prefix(v, i)) >= click_x}
    IN  IF hits = {} THEN Len(v)
        ELSE CHOOSE i \in hits : \A j \in hits : i <= j

\* _on_click with a content offset x
Click(b, x, view) == SetCursor(b, ClickIndex(b.value, x + view))

\* the bug of keeping the first line only (as a single-line input does)
PasteFirstLine(text) ==
    IF Len(SplitLines(text)) = 0 THEN <<>> ELSE SplitLines(text)[1]

\* _on_paste
PasteText(text) == JoinNL(SplitLines(text))
Paste(b, text) == InsertTextAtCursor(b, PasteText(text))

\* _on_focus: the cursor write
FocusCursor(b) == SetCursor(b, Len(b.value))

\* _InputRenderable.__rich_console__: the range handed to
\* Syntax.stylize_range, (line, cursor - 1) to (line, cursor), with the
\* 1-based line cursor_line + 1 and the absolute cursor_position as column
RenderCursor(b) ==
    [line |-> b.line + 1, start |-> b.pos - 1, end |-> b.pos]

--------------------------------------------------------------------------
(* The state machine *)

Init ==
    /\ value = <<>>
    /\ cursor_position = 0
    /\ cursor_line = 0
    /\ view_position = 0
    /\ cursor_blink = TRUE
    /\ cursor_visible = TRUE
    /\ has_focus = FALSE
    /\ mounted = FALSE
    /\ timer_active = FALSE
    /\ crashed = FALSE
    /\ last_event = "init"
    /\ posted = <<>>

\* the buffer part of a step
Store(b) ==
    /\ value' = b.value
    /\ cursor_position' = b.pos
    /\ cursor_line' = b.line
    /\ crashed' = b.raised
    /\ posted' = b.posted

Running == mounted /\ ~crashed

\* the bug of leaving the flag as the timer left it
KeyVisibleKept(visible) == visible

\* the first lines of _on_key
KeyVisible(visible) == TRUE
KeyTimer(active) == IF cursor_blink THEN TRUE ELSE active

OnKey(name, b) ==
    /\ Running /\ has_focus
    /\ cursor_visible' = KeyVisible(cursor_visible)
    /\ timer_active' = KeyTimer(timer_active)
    /\ Store(b)
    /\ last_event' = name
    /\ UNCHANGED <<view_position, cursor_blink, has_focus, mounted>>

Fits(b) == Len(b.value) <= MaxLen

KeyChar ==
    \E ch \in Printable :
        LET b == InsertTextAtCursor(Cur, <<ch>>)
        IN  Fits(b) /\ OnKey("key_char", b)

KeyEnter == LET b == CursorEnter(Cur) IN Fits(b) /\ OnKey("key_enter", b)
KeyBackspace == OnKey("key_backspace", DeleteLeft(Cur))
KeyLeft == OnKey("key_left", CursorLeft(Cur))
KeyRight == OnKey("key_right", CursorRight(Cur))
KeyUp == OnKey("key_up", CursorUp(Cur))
KeyDown == OnKey("key_down", CursorDown(Cur))
KeyHome == OnKey("key_home", Home(Cur))
KeyEnd == OnKey("key_end", End(Cur))

OnPaste ==
    \E text \in PasteTexts(MaxPaste) :
        LET b == Paste(Cur, text)
        IN  /\ Running /\ has_focus
            /\ Fits(b)
            /\ Store(b)
            /\ last_event' = "paste"
            /\ UNCHANGED <<view_position, cursor_blink, cursor_visible,
                           has_focus, mounted, timer_active>>

OnClick ==
    \E x \in 0..MaxClickX :
        /\ Running
        /\ Store(Click(Cur, x, view_position))
        /\ last_event' = "click"
        /\ UNCHANGED <<view_position, cursor_blink, cursor_visible,
                       has_focus, mounted, timer_active>>

\* a click outside the content region: get_content_offset gives None
OnClickOutside ==
    /\ Running
    /\ last_event' = "click_outside"
    /\ posted' = <<>>
    /\ UNCHANGED <<value, cursor_position, cursor_line, view_position,
                   cursor_blink, cursor_visible, has_focus, mounted,
                   timer_active, crashed>>

OnMount ==
    /\ ~mounted /\ ~crashed
    /\ mounted' = TRUE
    /\ timer_active' = (cursor_blink /\ has_focus)
    /\ last_event' = "mount"
    /\ posted' = <<>>
    /\ UNCHANGED <<value, cursor_position, cursor_line, view_position,
                   cursor_blink, cursor_visible, has_focus, crashed>>

OnFocus ==
    /\ Running /\ ~has_focus
    /\ has_focus' = TRUE
    /\ Store(FocusCursor(Cur))
    /\ timer_active' = IF cursor_blink THEN TRUE ELSE timer_active
    /\ last_event' = "focus"
    /\ UNCHANGED <<view_position, cursor_blink, cursor_visible, mounted>>

OnBlur ==
    /\ Running /\ has_focus
    /\ has_focus' = FALSE
    /\ timer_active' = FALSE
    /\ last_event' = "blur"
    /\ posted' = <<>>
    /\ UNCHANGED <<value, cursor_position, cursor_line, view_position,
                   cursor_blink, cursor_visible, mounted, crashed>>

\* _toggle_cusror, called by the interval timer while it is not paused
Tick ==
    /\ Running /\ timer_active
    /\ cursor_visible' = ~cursor_visible
    /\ last_event' = "tick"
    /\ posted' = <<>>
    /\ UNCHANGED <<value, cursor_position, cursor_line, view_position,
                   cursor_blink, has_focus, mounted, timer_active, crashed>>

\* widget.value = text, the reactive attribute written by the owner
SetContent ==
    \E text \in Texts(MaxSet) :
        /\ ~crashed
        /\ text # value
        /\ Store(SetValue(Cur, text))
        /\ last_event' = "set_content"
        /\ UNCHANGED <<view_position, cursor_blink, cursor_visible,
                       has_focus, mounted, timer_active>>

\* widget.cursor_blink = flag, the reactive attribute written by the owner
SetCursorBlink ==
    /\ ~crashed
    /\ cursor_blink' = ~cursor_blink
    /\ last_event' = "set_cursor_blink"
    /\ posted' = <<>>
    /\ UNCHANGED <<value, cursor_position, cursor_line, view_position,
                   cursor_visible, has_focus, mounted, timer_active, crashed>>

Next ==
    \/ OnMount
    \/ OnFocus
    \/ OnBlur
    \/ Tick
    \/ KeyChar
    \/ KeyEnter
    \/ KeyBackspace
    \/ KeyLeft
    \/ KeyRight
    \/ KeyUp
    \/ KeyDown
    \/ KeyHome
    \/ KeyEnd
    \/ OnPaste
    \/ OnClick
    \/ OnClickOutside
    \/ SetContent
    \/ SetCursorBlink

Spec == Init /\ [][Next]_vars

\* set_interval(0.5, ...): while the timer is not paused it keeps firing
SpecLive == Init /\ [][Next]_vars /\ WF_vars(Tick)

TypeOK ==
    /\ value \in Texts(MaxLen)
    /\ cursor_position \in 0..MaxLen
    /\ cursor_line \in 0..(MaxLen + 2)
    /\ cursor_visible \in BOOLEAN
    /\ posted \in {<<>>, <<value>>}

--------------------------------------------------------------------------
(* Claims *)

KeyEvents == {"key_char", "key_enter", "key_backspace", "key_left",
              "key_right", "key_up", "key_down", "key_home", "key_end"}
\* the navigation events that write cursor_position
CursorWriters == {"key_left", "key_right", "key_up", "key_home", "key_end",
                  "click", "focus"}

SingleLine(s) == CountNL(s) = 0

\* C1: after every mutation, set_content included, the cursor lies within
\* the content: 0 <= cursor_offset <= length(content).
C1_CursorWithinContent ==
    0 <= cursor_position /\ cursor_position <= Len(value)

\* C2: with the cursor within the content, inserting any single character
\* (the newline included) and then deleting left restores content and
\* cursor.
C2_InsertDeleteInverse ==
    cursor_position <= Len(value) =>
        \A ch \in Chars :
            LET b == DeleteLeft(InsertTextAtCursor(Cur, <<ch>>))
            IN  b.value = value /\ b.pos = cursor_position

\* C3: with the cursor at o within the content C, inserting a text leaves
\* C[0..o) + text + C[o..) and the cursor at o + length(text); into an
\* empty buffer the cursor ends at length(text).
C3_InsertSplicesAndAdvances ==
    cursor_position <= Len(value) =>
        \A text \in Texts(MaxPaste) :
            LET b == InsertTextAtCursor(Cur, text)
            IN  /\ b.value = Prefix(value, cursor_position) \o text
                                 \o Suffix(value, cursor_position)
                /\ b.pos = cursor_position + Len(text)

\* C4: from a single-line content S with the cursor at its end, a newline
\* followed by the insertion of a single-line text T leaves S + "\n" + T,
\* the cursor at length(S) + 1 + length(T) and cursor_line 1.
C4_NewlineThenInsert ==
    (SingleLine(value) /\ cursor_position = Len(value)) =>
        \A text \in {t \in Texts(MaxPaste) : SingleLine(t)} :
            LET b == InsertTextAtCursor(CursorEnter(Cur), text)
            IN  /\ b.value = value \o <<NL>> \o text
                /\ b.pos = Len(value) + 1 + Len(text)
                /\ b.line = 1

CursorInBounds ==
    /\ 0 <= cursor_position /\ cursor_position <= MaxLineLength(value)
    /\ 0 <= cursor_line /\ cursor_line <= CountNL(value) + 2

C6_BackspaceSemantics ==
    LET b == DeleteLeft(Cur)
        o == cursor_position
    IN  /\ o <= 0 => (b.value = value /\ b.pos = o)
        /\ (0 < o /\ o <= Len(value)) =>
              /\ b.value = Prefix(value, o - 1) \o Suffix(value, o)
              /\ b.pos = o - 1

\* the offset the claim gives for a click at cell `target`
LeastReaching(v, target) ==
    LET reach == {i \in 0..(Len(v) - 1) :
                      CellLen(SubSeq(v, 1, i)) >= target}
    IN  IF reach = {} THEN Len(v)
        ELSE CHOOSE i \in reach : \A j \in reach : i <= j

\* C7: a click at target = click_x + scroll_offset puts the cursor at the
\* least index whose cells before it reach the target, and at
\* length(content) when there is none; on "aWa" (W two cells wide) the
\* targets 0, 1, 3, 4 give 0, 1, 2, 3.
C7_ClickMapping ==
    /\ \A x \in 0..MaxClickX :
           Click(Cur, x, view_position).pos
               = LeastReaching(value, x + view_position)
    /\ LET w == Buf(<<"a", Wide, "a">>, 0, 0)
       IN  <<Click(w, 0, 0).pos, Click(w, 1, 0).pos,
             Click(w, 3, 0).pos, Click(w, 4, 0).pos>> = <<0, 1, 2, 3>>

\* C8: for the content and scroll offset at hand the clicked offset is
\* monotonic non-decreasing in click_x.
C8_ClickMonotonic ==
    \A x1 \in 0..MaxClickX : \A x2 \in x1..MaxClickX :
        Click(Cur, x1, view_position).pos
            <= Click(Cur, x2, view_position).pos

\* a click landed behind a wide character, where clicks at 0 and at the
\* right edge give different offsets
C8_Witness ==
    /\ last_event = "click"
    /\ value = <<"a", Wide, "a">>
    /\ cursor_position = 2
    /\ Click(Cur, 0, view_position).pos < Click(Cur, MaxClickX, view_position).pos

\* C9: no sequence of insert, paste, newline, delete, navigation and click
\* events raises: every handler completes on every reachable buffer.
C9_NeverRaises == ~crashed

\* a backspace was handled and left the buffer empty
C9_Witness ==
    /\ ~crashed
    /\ last_event = "key_backspace"
    /\ value = <<>>
    /\ cursor_position = 0

\* C10: right after a key event, printable or bound, the cursor is visible.
C10_KeyShowsCursor == last_event \in KeyEvents => cursor_visible

\* a bound key was handled while the blink timer runs
C10_Witness ==
    /\ last_event = "key_left"
    /\ cursor_visible
    /\ timer_active

\* C11: every step that changes the content posts exactly one Changed
\* message, and it carries the new full content.
C11_ChangePostsNewContent ==
    [][value' # value => posted' = <<value'>>]_vars

\* a backspace shortened the buffer and its notification carries the rest
C11_Witness ==
    /\ last_event = "key_backspace"
    /\ value = <<"a">>
    /\ posted = <<value>>

\* C12: the end key and a focus gain leave the cursor at length(content),
\* also on content with embedded newlines.
C12_EndAtContentLength ==
    last_event \in {"key_end", "focus"} => cursor_position = Len(value)

\* C13: up gives the state left gives and down gives the state right gives.
C13_VerticalIsHorizontal ==
    /\ CursorUp(Cur) = CursorLeft(Cur)
    /\ CursorDown(Cur) = CursorRight(Cur)

\* C14: the timer toggles the cursor only while the widget has focus and
\* blinking is enabled: no tick is handled while it is unfocused or while
\* cursor_blink is false.
C14_TicksOnlyWhenFocusedAndBlinking ==
    last_event = "tick" => (has_focus /\ cursor_blink)

\* C15: when insert_text_at_cursor is entered with the cursor beyond the
\* content, the text is appended and the cursor is left at the new
\* length(content).
C15_InsertBeyondEndAppends ==
    cursor_position > Len(value) =>
        \A text \in Texts(MaxPaste) :
            LET b == InsertTextAtCursor(Cur, text)
            IN  /\ b.value = value \o text
                /\ b.pos = Len(value \o text)

\* the 0-based line segment an absolute offset falls in, and the column of
\* the offset within that segment
OffsetLine(v, o) == CountNL(Prefix(v, o))
OffsetColumn(v, o) ==
    LET breaks == {i \in 1..Min2(o, Len(v)) : v[i] = NL}
    IN  IF breaks = {} THEN o
        ELSE o - (CHOOSE i \in breaks : \A j \in breaks : j <= i)

\* C16: with non-empty content, focus and a visible cursor, the styled
\* range is the one character left of the cursor on the line segment the
\* absolute offset falls in, and its start column is not negative.
C16_CursorStyledAtOffset ==
    (Len(value) > 0 /\ has_focus /\ cursor_visible) =>
        LET r == RenderCursor(Cur)
            col == OffsetColumn(value, cursor_position)
        IN  /\ r.line = OffsetLine(value, cursor_position) + 1
            /\ r.end = col
            /\ r.start = col - 1
            /\ r.start >= 0

EndsWithNL(t) == Len(t) > 0 /\ t[Len(t)] = NL
HasCR(t) == \E i \in 1..Len(t) : t[i] = CR
SameBuffer(b1, b2) == b1.value = b2.value /\ b1.pos = b2.pos

\* C17 as stated: for every pasted block t the spliced text is t, and the
\* paste has the effect of insert_at_cursor(t).
C17_PasteIsInsert ==
    \A t \in PasteTexts(MaxPaste) :
        /\ PasteText(t) = t
        /\ SameBuffer(Paste(Cur, t), InsertTextAtCursor(Cur, t))

\* C17, amended: a block whose only line breaks are "\n" is spliced as it
\* is when it does not end with "\n" (the paste then has the effect of
\* insert_at_cursor), and without its final "\n" when it ends with one.
C17_PasteDropsFinalNewline ==
    \A t \in PasteTexts(MaxPaste) :
        ~HasCR(t) =>
            /\ ~EndsWithNL(t) =>
                  /\ PasteText(t) = t
                  /\ SameBuffer(Paste(Cur, t), InsertTextAtCursor(Cur, t))
            /\ EndsWithNL(t) => PasteText(t) = SubSeq(t, 1, Len(t) - 1)

\* a block with an empty first line was pasted into the empty buffer
C17_Witness ==
    /\ last_event = "paste"
    /\ value = <<NL, "a">>
    /\ posted = <<value>>

\* the widget is mounted and focused, blinking is enabled, and the last
\* event handled was not a key
BlinkSteady ==
    Running /\ has_focus /\ cursor_blink /\ last_event \notin KeyEvents

\* C18: when from some point on the widget stays focused with blinking
\* enabled and no key event arrives, the timer keeps toggling the cursor:
\* it is visible infinitely often and hidden infinitely often.
C18_BlinkAlternates ==
    <>[]BlinkSteady => ([]<>cursor_visible /\ []<>~cursor_visible)

\* C19: after every event cursor_line is the number of newlines of the
\* content, wherever the cursor is: the increment of the enter key is
\* overwritten by the watcher.
C19_LineIsNewlineCount == cursor_line = CountNL(value)

\* the enter key was handled twice and the cursor stayed at offset 0
C19_Witness ==
    /\ last_event = "key_enter"
    /\ value = <<NL, NL>>
    /\ cursor_position = 0
    /\ cursor_line = 2

NavigationEvents == {"key_left", "key_right", "key_up", "key_down",
                     "key_home", "key_end"}
ReadOnlyEvents == NavigationEvents
                      \cup {"click", "click_outside", "focus", "blur", "tick"}

\* C20: navigation, clicks, focus, blur and timer ticks neither change the
\* content nor post a Changed message; ticks and blur also leave
\* cursor_position and cursor_line as they are.
C20_ReadOnlyEventsKeepContent ==
    [][/\ last_event' \in ReadOnlyEvents =>
              (value' = value /\ posted' = <<>>)
       /\ last_event' \in {"tick", "blur"} =>
              (cursor_position' = cursor_position
                   /\ cursor_line' = cursor_line)
      ]_vars

\* a tick hid the cursor of a two-line buffer
C20_Witness ==
    /\ last_event = "tick"
    /\ value = <<"a", NL>>
    /\ cursor_position = 1
    /\ ~cursor_visible
    /\ posted = <<>>

==========================================================================
